---- MODULE Spec2Model ----
(***************************************************************************)
(* Grade 1 Math Practice: the game session of script.js (start, reset,     *)
(* countdown, answer checking, mode and difficulty selection), the state   *)
(* functions of src/gameState.js and the problem generators of             *)
(* src/problemGenerator.js, as a state machine over the game state, the    *)
(* part of the page the handlers read back, and the browser's timers.      *)
(***************************************************************************)
EXTENDS Integers, Sequences, FiniteSets, TLC

\* ------------------------------------------------------------------ bounds
\* Answers checked in one session (score + incorrectAttempts) explored.
MaxAnswers == 4
\* setInterval timers outstanding at once.
MaxIntervals == 2
\* setTimeout(newProblem) callbacks pending at once.
MaxTimeouts == 2
\* During a session the learner types and clicks the operation and difficulty
\* buttons only in the last ActiveWindow seconds of the countdown.
ActiveWindow == 1
\* The texts the learner types on the number pad, digit by digit.
TypedAnswers == {<<2>>, <<5>>}
\* Math.random() is k / Resolution for a numerator k. In a session the
\* numerators explored are these: the low end of every range.
RandomOffsets == {0}
\* When the generators are called on their own the numerators are 0..MaxOffset,
\* which reaches every number of every configured range.
MaxOffset == 80
\* The numerals read back from a question are those of 0..MaxOperand.
MaxOperand == 100
\* The functions of utils.js and gameState.js called on their own: scores and
\* incorrect attempts up to MaxTally, lists of up to MaxRecorded recorded
\* problems, range ends from -MaxEnd to MaxEnd, and from -MaxEnd to MaxSeconds seconds.
MaxTally == 24
MaxRecorded == 4
MaxEnd == 3
MaxSeconds == 3600
\* The operation buttons and difficulty buttons pressed.
OperationButtons == {"addition", "mixed"}
DifficultyButtons == {"easy", "medium"}

\* --------------------------------------------------------------- constants
DEFAULT_GAME_MODE == "addition"
DEFAULT_DIFFICULTY == "easy"
DEFAULT_TIMER == 180
MAX_PROBLEM_ATTEMPTS == 3
\* timeLeft: 180 in startGame
START_TIME == 180
\* the value of a property that is not there (currentProblem = {})
UNDEFINED == -1
\* a falsy timer handle (undefined or null)
NO_TIMER == 0

GameModes == {"addition", "subtraction", "threeNumber", "mixed", "counting"}
Difficulties == {"easy", "medium", "hard", "mixed-difficulty"}
EMOJIS == <<"apple", "pizza", "dog", "cat", "unicorn", "icecream", "car", "rainbow", "star">>

Min(a, b) == IF a <= b THEN a ELSE b
Max(a, b) == IF a >= b THEN a ELSE b

\* difficultySettings of script.js; a missing entry is the empty set, a field
\* an entry does not have is 0, and min and max of counting are min1 and max1
difficultySettings(op, d) ==
  CASE op = "addition" /\ d = "easy" -> {[min1 |-> 1, max1 |-> 10, min2 |-> 1, max2 |-> 10, min3 |-> 0, max3 |-> 0]}
    [] op = "addition" /\ d = "medium" -> {[min1 |-> 1, max1 |-> 20, min2 |-> 1, max2 |-> 20, min3 |-> 0, max3 |-> 0]}
    [] op = "addition" /\ d = "hard" -> {[min1 |-> 10, max1 |-> 50, min2 |-> 10, max2 |-> 50, min3 |-> 0, max3 |-> 0]}
    [] op = "subtraction" /\ d = "easy" -> {[min1 |-> 1, max1 |-> 10, min2 |-> 1, max2 |-> 10, min3 |-> 0, max3 |-> 0]}
    [] op = "subtraction" /\ d = "medium" -> {[min1 |-> 10, max1 |-> 20, min2 |-> 1, max2 |-> 10, min3 |-> 0, max3 |-> 0]}
    [] op = "subtraction" /\ d = "hard" -> {[min1 |-> 20, max1 |-> 100, min2 |-> 1, max2 |-> 20, min3 |-> 0, max3 |-> 0]}
    [] op = "threeNumber" /\ d = "easy" -> {[min1 |-> 1, max1 |-> 10, min2 |-> 1, max2 |-> 5, min3 |-> 1, max3 |-> 5]}
    [] op = "threeNumber" /\ d = "medium" -> {[min1 |-> 5, max1 |-> 15, min2 |-> 1, max2 |-> 10, min3 |-> 1, max3 |-> 10]}
    [] op = "threeNumber" /\ d = "hard" -> {[min1 |-> 10, max1 |-> 25, min2 |-> 5, max2 |-> 15, min3 |-> 5, max3 |-> 15]}
    [] op = "mixed" /\ d = "easy" -> {[min1 |-> 1, max1 |-> 10, min2 |-> 1, max2 |-> 10, min3 |-> 0, max3 |-> 0]}
    [] op = "mixed" /\ d = "medium" -> {[min1 |-> 1, max1 |-> 20, min2 |-> 1, max2 |-> 20, min3 |-> 0, max3 |-> 0]}
    [] op = "mixed" /\ d = "hard" -> {[min1 |-> 10, max1 |-> 50, min2 |-> 1, max2 |-> 25, min3 |-> 0, max3 |-> 0]}
    [] op = "counting" /\ d = "easy" -> {[min1 |-> 5, max1 |-> 10, min2 |-> 0, max2 |-> 0, min3 |-> 0, max3 |-> 0]}
    [] op = "counting" /\ d = "medium" -> {[min1 |-> 10, max1 |-> 20, min2 |-> 0, max2 |-> 0, min3 |-> 0, max3 |-> 0]}
    [] op = "counting" /\ d = "hard" -> {[min1 |-> 15, max1 |-> 30, min2 |-> 0, max2 |-> 0, min3 |-> 0, max3 |-> 0]}
    [] OTHER -> {}

\* ------------------------------------------------------------------- utils
\* the numerators k of the values k / Resolution that Math.random can yield in
\* this behaviour
VARIABLE mathRandom

\* Math.random() is in [0, 1): its numerators are below Resolution
Resolution == MaxOffset + 1

\* Math.floor(Math.random() * (max - min + 1)) + min
RandomFloor(min, max) == { ((k * (max - min + 1)) \div Resolution) + min : k \in mathRandom }

\* a getRandomNumber without its check of the range
getRandomNumberUnchecked(min, max) == RandomFloor(min, max)

\* getRandomNumber: throws when min > max (no outcome)
getRandomNumber(min, max) == IF min > max THEN {} ELSE RandomFloor(min, max)

\* a getRandomDifficulty whose difficulties are all three tiers
getRandomDifficultyOfThree == { <<"easy", "medium", "hard">>[i + 1] : i \in RandomFloor(0, 2) }

\* getRandomDifficulty: difficulties[Math.floor(Math.random() * 2)]
getRandomDifficulty == { <<"medium", "hard">>[i + 1] : i \in RandomFloor(0, 1) }

\* a formatTime that does not pad the seconds
formatTimeUnpadded(seconds) ==
  IF seconds < 0 THEN "0:00"
  ELSE ToString(seconds \div 60) \o ":" \o ToString(seconds % 60)

\* formatTime: `${minutes}:${remainingSeconds < 10 ? '0' : ''}${remainingSeconds}`
formatTime(seconds) ==
  IF seconds < 0 THEN "0:00"
  ELSE LET minutes == seconds \div 60
           remainingSeconds == seconds % 60
       IN ToString(minutes) \o ":" \o (IF remainingSeconds < 10 THEN "0" ELSE "") \o ToString(remainingSeconds)

\* parseInt of the answer display, whose text is a run of pad digits;
\* the empty text parses to NaN, here UNDEFINED
RECURSIVE parseInt(_)
parseInt(text) ==
  IF Len(text) = 0 THEN UNDEFINED
  ELSE IF Len(text) = 1 THEN text[1]
  ELSE 10 * parseInt(SubSeq(text, 1, Len(text) - 1)) + text[Len(text)]

\* an isNaN that takes every value for a number
neverNaN(n) == FALSE

isNaN(n) == n = UNDEFINED

\* ------------------------------------------------------------ the problems
\* A question is the text of the template string, as its tokens.
Problem(q, a, t, src) == [question |-> q, originalQuestion |-> q, answer |-> a, type |-> t, sourceMode |-> src]

\* currentProblem: {}
NoProblem == [question |-> <<>>, originalQuestion |-> <<>>, answer |-> UNDEFINED, type |-> "", sourceMode |-> ""]

Q2(a, op, b) == <<ToString(a), op, ToString(b), "=", "?">>
Q3(a, op1, b, op2, c) == <<ToString(a), op1, ToString(b), op2, ToString(c), "=", "?">>

\* a generateAdditionProblem that draws num2 from 0 up
generateAdditionProblemFromZero(difficulty) ==
  { Problem(Q2(num1, "+", num2), num1 + num2, "", "") :
      <<num1, num2>> \in UNION { getRandomNumber(s.min1, s.max1) \X getRandomNumber(0, s.max2) :
                                 s \in difficultySettings("addition", difficulty) } }

generateAdditionProblem(difficulty) ==
  { Problem(Q2(num1, "+", num2), num1 + num2, "", "") :
      <<num1, num2>> \in UNION { getRandomNumber(s.min1, s.max1) \X getRandomNumber(s.min2, s.max2) :
                                 s \in difficultySettings("addition", difficulty) } }

\* a generateSubtractionProblem that draws num2 from its whole range
generateSubtractionProblemUnclamped(difficulty) ==
  { Problem(Q2(num1, "-", num2), num1 - num2, "", "") :
      <<num1, num2>> \in UNION { getRandomNumber(s.min1, s.max1) \X getRandomNumber(s.min2, s.max2) :
                                 s \in difficultySettings("subtraction", difficulty) } }

generateSubtractionProblem(difficulty) ==
  UNION { UNION { { Problem(Q2(num1, "-", num2), num1 - num2, "", "") :
                    num2 \in getRandomNumber(s.min2, Min(s.max2, num1)) } :
                  num1 \in getRandomNumber(s.min1, s.max1) } :
          s \in difficultySettings("subtraction", difficulty) }

\* a generateThreeNumberProblem that adjusts neither num3 nor num2
ThreeNumberShapeUnadjusted(s, problemType, num1, num2, num3) ==
  CASE problemType = 1 -> { Problem(Q3(num1, "+", num2, "+", num3), num1 + num2 + num3, "threeNumber", "") }
    [] problemType = 2 -> { Problem(Q3(num1, "+", num2, "-", num3), num1 + num2 - num3, "threeNumber", "") }
    [] OTHER -> { Problem(Q3(num1, "-", num2, "+", num3), num1 - num2 + num3, "threeNumber", "") }

\* a generateThreeNumberProblem that redraws num3 from 0 up
ThreeNumberShapeFromZero(s, problemType, num1, num2, num3) ==
  CASE problemType = 1 -> { Problem(Q3(num1, "+", num2, "+", num3), num1 + num2 + num3, "threeNumber", "") }
    [] problemType = 2 ->
         IF num1 + num2 <= num3
         THEN { Problem(Q3(num1, "+", num2, "-", adjustedNum3), num1 + num2 - adjustedNum3, "threeNumber", "") :
                adjustedNum3 \in getRandomNumber(0, Max(1, num1 + num2 - 1)) }
         ELSE { Problem(Q3(num1, "+", num2, "-", num3), num1 + num2 - num3, "threeNumber", "") }
    [] OTHER -> { Problem(Q3(num1, "+", num2, "+", num3), num1 + num2 + num3, "threeNumber", "") }

\* a generateThreeNumberProblem that takes the a - b + c shape for num1 = min2 too
ThreeNumberShapeAtMin(s, problemType, num1, num2, num3) ==
  CASE problemType = 1 -> { Problem(Q3(num1, "+", num2, "+", num3), num1 + num2 + num3, "threeNumber", "") }
    [] problemType = 2 -> { Problem(Q3(num1, "+", num2, "+", num3), num1 + num2 + num3, "threeNumber", "") }
    [] OTHER ->
         IF num1 < s.min2
         THEN { Problem(Q3(num1, "+", num2, "+", num3), num1 + num2 + num3, "threeNumber", "") }
         ELSE { Problem(Q3(num1, "-", adjustedNum2, "+", num3), num1 - adjustedNum2 + num3, "threeNumber", "") :
                adjustedNum2 \in getRandomNumber(s.min2, Min(s.max2, Max(1, num1 - 1))) }

\* generateThreeNumberProblem, one shape at a time
ThreeNumberShape(s, problemType, num1, num2, num3) ==
  CASE problemType = 1 -> { Problem(Q3(num1, "+", num2, "+", num3), num1 + num2 + num3, "threeNumber", "") }
    [] problemType = 2 ->
         IF num1 + num2 <= num3
         THEN { Problem(Q3(num1, "+", num2, "-", adjustedNum3), num1 + num2 - adjustedNum3, "threeNumber", "") :
                adjustedNum3 \in getRandomNumber(1, Max(1, num1 + num2 - 1)) }
         ELSE { Problem(Q3(num1, "+", num2, "-", num3), num1 + num2 - num3, "threeNumber", "") }
    [] OTHER ->
         IF num1 <= s.min2
         THEN { Problem(Q3(num1, "+", num2, "+", num3), num1 + num2 + num3, "threeNumber", "") }
         ELSE { Problem(Q3(num1, "-", adjustedNum2, "+", num3), num1 - adjustedNum2 + num3, "threeNumber", "") :
                adjustedNum2 \in getRandomNumber(s.min2, Min(s.max2, Max(1, num1 - 1))) }

generateThreeNumberProblem(difficulty) ==
  IF difficultySettings("threeNumber", difficulty) = {}
  THEN generateAdditionProblem(difficulty)
  ELSE UNION { UNION { ThreeNumberShape(s, problemType, n[1], n[2], n[3]) :
                       n \in getRandomNumber(s.min1, s.max1) \X getRandomNumber(s.min2, s.max2)
                               \X getRandomNumber(s.min3, s.max3),
                       problemType \in getRandomNumber(1, 3) } :
               s \in difficultySettings("threeNumber", difficulty) }

\* an emoji run without breaks
emojiStringUnbroken(emoji, count, difficulty) ==
  [i \in 1..(2 * count) |-> IF i % 2 = 1 THEN emoji ELSE " "]

\* the emoji run of a counting question: the emoji and a blank per item,
\* a break after every fifth item unless the difficulty is easy
RECURSIVE emojiString(_, _, _)
emojiString(emoji, count, difficulty) ==
  IF count = 0 THEN <<>>
  ELSE emojiString(emoji, count - 1, difficulty) \o <<emoji, " ">>
         \o (IF difficulty # "easy" /\ (count - 1) % 5 = 4 THEN <<"<br>">> ELSE <<>>)

generateCountingProblem(difficulty) ==
  UNION { { Problem(<<"How many ", EMOJIS[e + 1], "?", "<br>">> \o emojiString(EMOJIS[e + 1], count, difficulty),
                    count, "", "") :
            count \in getRandomNumber(s.min1, s.max1), e \in RandomFloor(0, Len(EMOJIS) - 1) } :
          s \in difficultySettings("counting", difficulty) }

\* a mixed case that never takes its last branch
mixedProblemOfTwo(difficulty) ==
  UNION { CASE third = 0 -> generateAdditionProblem(difficulty)
            [] OTHER -> generateSubtractionProblem(difficulty) :
          third \in RandomFloor(0, 1) }

\* the mixed case of generateProblemByMode: randomValue < 0.33, < 0.67, or above
mixedProblem(difficulty) ==
  UNION { CASE third = 0 -> generateAdditionProblem(difficulty)
            [] third = 1 -> generateSubtractionProblem(difficulty)
            [] OTHER -> generateThreeNumberProblem(difficulty) :
          third \in RandomFloor(0, 2) }

\* the a + b + c problem the catch branch of generateProblemByMode builds, from
\* the settings of the difficulty or else from its own default ranges
threeNumberFallback(difficulty) ==
  LET settings == IF difficultySettings("threeNumber", difficulty) # {}
                  THEN difficultySettings("threeNumber", difficulty)
                  ELSE {[min1 |-> 1, max1 |-> 10, min2 |-> 1, max2 |-> 5, min3 |-> 1, max3 |-> 5]}
  IN UNION { { Problem(Q3(n[1], "+", n[2], "+", n[3]), n[1] + n[2] + n[3], "threeNumber", "") :
               n \in RandomFloor(s.min1, s.max1) \X RandomFloor(s.min2, s.max2) \X RandomFloor(s.min3, s.max3) } :
             s \in settings }

\* whether a call of the generator can end in an exception: the TypeError of
\* reading a range of settings that are not there, or the Error of getRandomNumber
generateAdditionProblemThrows(difficulty) == difficultySettings("addition", difficulty) = {}

generateSubtractionProblemThrows(difficulty) ==
  \/ difficultySettings("subtraction", difficulty) = {}
  \/ \E s \in difficultySettings("subtraction", difficulty) :
        \/ s.min1 > s.max1
        \/ \E num1 \in getRandomNumber(s.min1, s.max1) : s.min2 > Min(s.max2, num1)

generateThreeNumberProblemThrows(difficulty) ==
  IF difficultySettings("threeNumber", difficulty) = {}
  THEN generateAdditionProblemThrows(difficulty)
  ELSE \E s \in difficultySettings("threeNumber", difficulty) :
         \/ s.min1 > s.max1 \/ s.min2 > s.max2 \/ s.min3 > s.max3
         \/ \E num1 \in getRandomNumber(s.min1, s.max1) :
              num1 > s.min2 /\ s.min2 > Min(s.max2, Max(1, num1 - 1))

generateCountingProblemThrows(difficulty) == difficultySettings("counting", difficulty) = {}

\* a generateProblemByMode that returns the problem as its generator made it
generateProblemByModeUntagged(difficulty, gameMode) ==
  CASE gameMode = "addition" -> generateAdditionProblem(difficulty)
    [] gameMode = "subtraction" -> generateSubtractionProblem(difficulty)
    [] gameMode = "threeNumber" -> generateThreeNumberProblem(difficulty)
    [] gameMode = "mixed" -> mixedProblem(difficulty)
    [] gameMode = "counting" -> generateCountingProblem(difficulty)
    [] OTHER -> generateAdditionProblem(difficulty)

\* a generateProblemByMode that takes its default branch for every mode
generateProblemByModeDefault(difficulty, gameMode) ==
  { [p EXCEPT !.sourceMode = gameMode] : p \in generateAdditionProblem(difficulty) }

\* generateProblemByMode: the generator of the mode, then problem.sourceMode = gameMode;
\* the threeNumber case catches the exception of its generator and builds the fallback
generateProblemByMode(difficulty, gameMode) ==
  LET generated ==
        CASE gameMode = "addition" -> generateAdditionProblem(difficulty)
          [] gameMode = "subtraction" -> generateSubtractionProblem(difficulty)
          [] gameMode = "threeNumber" ->
               generateThreeNumberProblem(difficulty)
                 \cup (IF generateThreeNumberProblemThrows(difficulty) THEN threeNumberFallback(difficulty) ELSE {})
          [] gameMode = "mixed" -> mixedProblem(difficulty)
          [] gameMode = "counting" -> generateCountingProblem(difficulty)
          [] OTHER -> generateAdditionProblem(difficulty)
  IN { [p EXCEPT !.sourceMode = gameMode] : p \in generated }

\* whether generateProblemByMode can end in an exception
generateProblemByModeThrows(difficulty, gameMode) ==
  CASE gameMode = "addition" -> generateAdditionProblemThrows(difficulty)
    [] gameMode = "subtraction" -> generateSubtractionProblemThrows(difficulty)
    [] gameMode = "threeNumber" -> FALSE
    [] gameMode = "mixed" ->
         \/ 0 \in RandomFloor(0, 2) /\ generateAdditionProblemThrows(difficulty)
         \/ 1 \in RandomFloor(0, 2) /\ generateSubtractionProblemThrows(difficulty)
         \/ 2 \in RandomFloor(0, 2) /\ generateThreeNumberProblemThrows(difficulty)
    [] gameMode = "counting" -> generateCountingProblemThrows(difficulty)
    [] OTHER -> generateAdditionProblemThrows(difficulty)

\* the three-number problem newProblem of script.js builds itself
InlineThreeNumberShape(problemType, num1, num2, num3) ==
  CASE problemType = 1 -> Problem(Q3(num1, "+", num2, "+", num3), num1 + num2 + num3, "threeNumber", "threeNumber")
    [] problemType = 2 ->
         IF num1 + num2 <= num3
         THEN LET adjustedNum3 == Min(num3, num1 + num2 - 1)
              IN Problem(Q3(num1, "+", num2, "-", adjustedNum3), num1 + num2 - adjustedNum3, "threeNumber", "threeNumber")
         ELSE Problem(Q3(num1, "+", num2, "-", num3), num1 + num2 - num3, "threeNumber", "threeNumber")
    [] OTHER ->
         IF num1 <= num2
         THEN LET safeNum2 == Min(num2, IF num1 - 1 > 0 THEN num1 - 1 ELSE 1)
              IN Problem(Q3(num1, "-", safeNum2, "+", num3), num1 - safeNum2 + num3, "threeNumber", "threeNumber")
         ELSE Problem(Q3(num1, "-", num2, "+", num3), num1 - num2 + num3, "threeNumber", "threeNumber")

\* the try block of newProblem; its catch branch runs only when the settings
\* of the difficulty are missing, and every difficulty it is given has them
InlineThreeNumberProblem(activeDifficulty) ==
  UNION { { InlineThreeNumberShape(problemType, n[1], n[2], n[3]) :
            n \in RandomFloor(s.min1, s.max1) \X RandomFloor(s.min2, s.max2) \X RandomFloor(s.min3, s.max3),
            problemType \in RandomFloor(1, 3) } :
          s \in difficultySettings("threeNumber", activeDifficulty) }

\* ------------------------------------------------------------ gameState.js
initGameState ==
  [gameMode |-> DEFAULT_GAME_MODE, difficulty |-> DEFAULT_DIFFICULTY, currentProblem |-> NoProblem,
   score |-> 0, incorrectAttempts |-> 0, currentProblemAttempts |-> 0, timeLeft |-> DEFAULT_TIMER,
   gameActive |-> FALSE, incorrectProblems |-> <<>>, timerInterval |-> NO_TIMER]

\* an updateScore that counts a correct answer twice
updateScoreTwice(state) == [state EXCEPT !.score = state.score + 2]

updateScore(state) == [state EXCEPT !.score = state.score + 1]

\* a recordIncorrectProblem that lists a problem on its first incorrect attempt only
recordFirstIncorrectProblem(state, problem) ==
  [state EXCEPT !.incorrectAttempts = state.incorrectAttempts + 1,
                !.currentProblemAttempts = state.currentProblemAttempts + 1,
                !.incorrectProblems = IF state.currentProblemAttempts = 0
                                      THEN Append(state.incorrectProblems, problem)
                                      ELSE state.incorrectProblems]

\* a recordIncorrectProblem that counts an incorrect answer twice in the total
recordIncorrectProblemTwice(state, problem) ==
  [state EXCEPT !.incorrectAttempts = state.incorrectAttempts + 2,
                !.currentProblemAttempts = state.currentProblemAttempts + 1,
                !.incorrectProblems = Append(state.incorrectProblems, problem)]

recordIncorrectProblem(state, problem) ==
  [state EXCEPT !.incorrectAttempts = state.incorrectAttempts + 1,
                !.currentProblemAttempts = state.currentProblemAttempts + 1,
                !.incorrectProblems = Append(state.incorrectProblems, problem)]

\* a hasReachedMaxAttempts that is one attempt late
hasExceededMaxAttempts(state) == state.currentProblemAttempts > MAX_PROBLEM_ATTEMPTS

hasReachedMaxAttempts(state) == state.currentProblemAttempts >= MAX_PROBLEM_ATTEMPTS

updateGameMode(state, mode) == [state EXCEPT !.gameMode = mode]

updateDifficulty(state, difficulty) == [state EXCEPT !.difficulty = difficulty]

\* an updateCurrentProblem that leaves the attempts of the old problem
installProblemOnly(state, problem) == [state EXCEPT !.currentProblem = problem]

updateCurrentProblem(state, problem) ==
  [state EXCEPT !.currentProblem = problem, !.currentProblemAttempts = 0]

\* a calculateAccuracy that cuts the percentage off
calculateAccuracyFloored(state) ==
  LET totalAttempts == state.score + state.incorrectAttempts
  IN IF totalAttempts = 0 THEN {0} ELSE {(100 * state.score) \div totalAttempts}

RECURSIVE GCD(_, _)
GCD(a, b) == IF b = 0 THEN a ELSE GCD(b, a % b)

RECURSIVE isPowerOfTwo(_)
isPowerOfTwo(n) == n = 1 \/ (n > 1 /\ n % 2 = 0 /\ isPowerOfTwo(n \div 2))

\* whether the double score / totalAttempts is the exact quotient
exactQuotient(score, totalAttempts) == isPowerOfTwo(totalAttempts \div GCD(score, totalAttempts))

\* calculateAccuracy: Math.round((score / totalAttempts) * 100), the values it
\* can return. Math.round takes a half up. Where the percentage is a whole
\* number and a half but the quotient is not an exact double, the product may
\* fall just short of the half (23 of 40 gives 57.49999999999999), so that
\* Math.round returns either neighbour.
calculateAccuracy(state) ==
  LET totalAttempts == state.score + state.incorrectAttempts
      halfUp == (200 * state.score + totalAttempts) \div (2 * totalAttempts)
  IN IF totalAttempts = 0 THEN {0}
     ELSE IF (200 * state.score) % (2 * totalAttempts) = totalAttempts
             /\ ~exactQuotient(state.score, totalAttempts)
          THEN {halfUp - 1, halfUp}
          ELSE {halfUp}


\* a getUniqueIncorrectProblems that returns the list as recorded
keepAllIncorrectProblems(problems) == problems

\* the text of a question: the tokens of "a + b = ?" with a blank between
\* them, those of a counting question as they are
RECURSIVE questionText(_)
questionText(question) ==
  IF question = <<>> THEN ""
  ELSE IF Len(question) = 1 THEN question[1]
  ELSE questionText(SubSeq(question, 1, Len(question) - 1))
         \o (IF question[1] = "How many " THEN "" ELSE " ") \o question[Len(question)]

\* getUniqueIncorrectProblems: the first entry of every key question + answer
RECURSIVE getUniqueIncorrectProblems(_)
getUniqueIncorrectProblems(problems) ==
  IF problems = <<>> THEN <<>>
  ELSE LET front == SubSeq(problems, 1, Len(problems) - 1)
           last == problems[Len(problems)]
           key(p) == questionText(p.question) \o ToString(p.answer)
       IN IF \E i \in 1..Len(front) : key(front[i]) = key(last)
          THEN getUniqueIncorrectProblems(front)
          ELSE Append(getUniqueIncorrectProblems(front), last)

\* --------------------------------------------------------------- debounce
\* debounce(func, delay) of gameState.js: the closure of one debounced
\* function and the timers of the page around it
VARIABLE debounced

\* the delay given to debounce, in units of the clock
DebounceDelay == 2

\* the clock stops at MaxClock and the debounced function is called at most
\* MaxCalls times
MaxClock == 7
MaxCalls == 3

\* what the calls pass as args
DebounceArguments == {"a", "b"}

\* let timeoutId, undefined until the first call; no timer pending; nothing
\* called and func not run yet
notDebounced == [now |-> 0, timeoutId |-> UNDEFINED, timers |-> {}, calls |-> <<>>, runs |-> <<>>]

\* a clearTimeout that cancels nothing
clearTimeoutIgnored(timers, timeoutId) == timers

\* clearTimeout(timeoutId): the timer of that id is no longer pending;
\* undefined or an id that already fired cancels nothing
clearTimeout(timers, timeoutId) == { t \in timers : t.id # timeoutId }

\* setTimeout(() => func.apply(this, args), delay) at the time now, under the
\* fresh id
setTimeout(timers, id, now, delay, args) == timers \cup {[id |-> id, due |-> now + delay, args |-> args]}

\* a timer whose delay has elapsed and whose callback has not run yet
timerDue == \E t \in debounced.timers : t.due <= debounced.now

\* ------------------------------------------------------------------- state
VARIABLES
  gameState,        \* let gameState of script.js, with gameState.timerInterval
  activeOperation,  \* id of the .operation-btn.active button
  answerDisplay,    \* elements.answerDisplay.textContent, the digits typed
  checkDisabled,    \* elements.check.disabled
  padDisabled,      \* disabled of the number buttons and the clear button
  message,          \* what elements.message shows
  lockedMessages,   \* the locked-control messages that are not hidden
  intervals,        \* handles of the setInterval(updateTimer, 1000) outstanding
  timeouts,         \* setTimeout(newProblem, 1500) callbacks still pending
  ticks,            \* history: updateTimer runs since the last startGame (UNDEFINED: none since load or reset)
  startedFrom,      \* history: where the last startGame since load or reset found the game
  raised,           \* whether the last direct call of a function ended in an exception
  returned          \* the last direct call of a function of utils.js or gameState.js: name, arguments, value

vars == <<gameState, activeOperation, answerDisplay, checkDisabled, padDisabled, message, lockedMessages,
          intervals, timeouts, ticks, startedFrom, mathRandom, debounced, raised, returned>>

InActiveWindow == gameState.gameActive => gameState.timeLeft <= ActiveWindow

\* no function of utils.js or gameState.js has been called directly
NothingReturned == [function |-> "", arguments |-> <<>>, value |-> UNDEFINED]

\* elements.message: its kind, and the results when it shows them
Msg(kind) == [kind |-> kind, accuracy |-> UNDEFINED, problems |-> <<>>]

\* the handle setInterval returns: one not outstanding
NewHandle == CHOOSE h \in 1..(Cardinality(intervals) + 1) : h \notin intervals

\* clearInterval(gameState.timerInterval) under if (gameState.timerInterval)
ClearedIntervals == IF gameState.timerInterval # NO_TIMER THEN intervals \ {gameState.timerInterval} ELSE intervals

\* let activeDifficulty of newProblem: the values it can take
activeDifficulties(gs) == IF gs.difficulty = "mixed-difficulty" THEN getRandomDifficulty ELSE {gs.difficulty}

\* newProblem of script.js: the game states it can leave, from state gs
generatedProblems(gs) ==
  UNION { IF gs.gameMode = "threeNumber"
          THEN InlineThreeNumberProblem(activeDifficulty)
          ELSE generateProblemByMode(activeDifficulty, gs.gameMode) :
          activeDifficulty \in activeDifficulties(gs) }

newProblem(gs) ==
  LET activated == IF ~gs.gameActive THEN [gs EXCEPT !.gameActive = TRUE] ELSE gs
      synced == IF activated.gameMode # activeOperation
                THEN [activated EXCEPT !.gameMode = activeOperation] ELSE activated
  IN { [updateCurrentProblem(synced, problem) EXCEPT !.gameActive = TRUE] : problem \in generatedProblems(synced) }

Init ==
  /\ gameState = [initGameState EXCEPT !.gameMode = "mixed", !.difficulty = "medium"]
  /\ activeOperation = "mixed"
  /\ answerDisplay = <<>>
  /\ checkDisabled = TRUE
  /\ padDisabled = TRUE
  /\ message = Msg("")
  /\ lockedMessages = {}
  /\ intervals = {}
  /\ timeouts = 0
  /\ ticks = UNDEFINED
  /\ startedFrom = "none"
  /\ mathRandom = RandomOffsets
  /\ raised = FALSE
  /\ returned = NothingReturned
  /\ debounced = notDebounced

\* a startGame that begins from the defaults of initGameState
defaultGameState(currentMode, currentDifficulty) == [initGameState EXCEPT !.gameActive = TRUE]

\* the gameState literal of startGame
freshGameState(currentMode, currentDifficulty) ==
  [gameMode |-> currentMode, difficulty |-> currentDifficulty, score |-> 0,
   incorrectAttempts |-> 0, currentProblemAttempts |-> 0, timeLeft |-> START_TIME,
   gameActive |-> TRUE, incorrectProblems |-> <<>>, currentProblem |-> NoProblem,
   timerInterval |-> NO_TIMER]

\* click on #start-btn
startGame ==
  /\ Cardinality(intervals) < MaxIntervals
  /\ LET currentMode == IF gameState.gameMode # activeOperation THEN activeOperation ELSE gameState.gameMode
     IN \E gs \in newProblem(freshGameState(currentMode, gameState.difficulty)) :
          gameState' = [gs EXCEPT !.timerInterval = NewHandle]
  /\ intervals' = intervals \cup {NewHandle}
  /\ answerDisplay' = <<>>
  /\ checkDisabled' = TRUE
  /\ padDisabled' = FALSE
  /\ message' = Msg("")
  /\ ticks' = 0
  /\ startedFrom' = IF gameState.gameActive THEN "active"
                    ELSE IF ticks = UNDEFINED THEN "idle" ELSE "ended"
  /\ UNCHANGED <<activeOperation, lockedMessages, timeouts, mathRandom, debounced, raised, returned>>

\* click on #reset-btn
resetGame ==
  /\ intervals' = ClearedIntervals
  /\ gameState' = [updateDifficulty(updateGameMode(initGameState, "mixed"), "medium") EXCEPT !.gameActive = FALSE]
  /\ activeOperation' = "mixed"
  /\ answerDisplay' = <<>>
  /\ checkDisabled' = TRUE
  /\ padDisabled' = TRUE
  /\ message' = Msg("reset")
  /\ ticks' = UNDEFINED
  /\ startedFrom' = "none"
  /\ UNCHANGED <<lockedMessages, timeouts, mathRandom, debounced, raised, returned>>

\* endGame, with showGameResults
endGame(gs) ==
  /\ gameState' = [gs EXCEPT !.gameActive = FALSE, !.timerInterval = NO_TIMER]
  /\ intervals' = ClearedIntervals
  /\ checkDisabled' = TRUE
  /\ padDisabled' = TRUE
  /\ \E accuracyRate \in calculateAccuracy(gs) :
       message' = [kind |-> "end-message", accuracy |-> accuracyRate,
                   problems |-> getUniqueIncorrectProblems(gs.incorrectProblems)]

\* a timeIsUp that ends the session on its first tick
timeIsUpAtOnce(timeLeft) == timeLeft < START_TIME

\* a timeIsUp that lets the countdown run on
neverTimeIsUp(timeLeft) == FALSE

\* an updateTimer that ends the session as soon as the countdown shows 0
timeIsUpAtZero(timeLeft) == timeLeft <= 0

\* if (gameState.timeLeft < 0) of updateTimer, after the decrement
timeIsUp(timeLeft) == timeLeft < 0

\* one firing of a setInterval(updateTimer, 1000)
updateTimer ==
  /\ intervals # {}
  /\ IF ~gameState.gameActive
     THEN /\ intervals' = ClearedIntervals
          /\ gameState' = [gameState EXCEPT !.timerInterval = NO_TIMER]
          /\ UNCHANGED <<checkDisabled, padDisabled, message>>
     ELSE IF timeIsUp(gameState.timeLeft - 1)
          THEN endGame([gameState EXCEPT !.timeLeft = 0])
          ELSE /\ gameState' = [gameState EXCEPT !.timeLeft = gameState.timeLeft - 1]
               /\ UNCHANGED <<intervals, checkDisabled, padDisabled, message>>
  /\ ticks' = IF ticks = UNDEFINED THEN UNDEFINED ELSE Min(ticks + 1, START_TIME + 1)
  /\ UNCHANGED <<activeOperation, answerDisplay, lockedMessages, timeouts, startedFrom, mathRandom, debounced, raised, returned>>

handleCorrectAnswer ==
  /\ gameState' \in newProblem(updateScore(gameState))
  /\ answerDisplay' = <<>>
  /\ checkDisabled' = TRUE
  /\ message' = Msg("")
  /\ UNCHANGED timeouts

\* the entry handleIncorrectAnswer records for a problem
Entry(problem) == [question |-> problem.question, answer |-> problem.answer]

handleIncorrectAnswer ==
  LET recorded == recordIncorrectProblem(gameState, Entry(gameState.currentProblem))
  IN /\ gameState' = recorded
     /\ answerDisplay' = <<>>
     /\ checkDisabled' = TRUE
     /\ IF hasReachedMaxAttempts(recorded)
        THEN /\ timeouts < MaxTimeouts
             /\ message' = Msg("hint")
             /\ timeouts' = timeouts + 1
        ELSE /\ message' = Msg("incorrect")
             /\ UNCHANGED timeouts

\* checkAnswer of script.js
checkAnswer ==
  /\ gameState.score + gameState.incorrectAttempts < MaxAnswers
  /\ LET userAnswer == parseInt(answerDisplay)
     IN IF isNaN(userAnswer)
        THEN /\ message' = Msg("please-enter-a-number")
             /\ UNCHANGED <<gameState, answerDisplay, checkDisabled, timeouts>>
        ELSE IF userAnswer = gameState.currentProblem.answer
             THEN handleCorrectAnswer
             ELSE handleIncorrectAnswer
  /\ UNCHANGED <<activeOperation, padDisabled, lockedMessages, intervals, ticks, startedFrom, mathRandom, debounced, raised, returned>>

\* click on #check, which a disabled button does not receive
checkButtonClick ==
  /\ ~checkDisabled
  /\ checkAnswer

\* checkAnswer called while the answer display is empty, which no click does:
\* #check is disabled whenever the display is empty
checkAnswerOnEmptyDisplay ==
  /\ answerDisplay = <<>>
  /\ InActiveWindow
  /\ checkAnswer

\* the pending setTimeout(newProblem, 1500) fires
newProblemTimeout ==
  /\ timeouts > 0
  /\ timeouts' = timeouts - 1
  /\ gameState' \in newProblem(gameState)
  /\ answerDisplay' = <<>>
  /\ checkDisabled' = TRUE
  /\ message' = Msg("")
  /\ UNCHANGED <<activeOperation, padDisabled, lockedMessages, intervals, ticks, startedFrom, mathRandom, debounced, raised, returned>>

\* click on a .num-btn: the digit is appended, checkInputValue enables #check
numberButtonClick(digit) ==
  /\ ~padDisabled
  /\ InActiveWindow
  /\ \E text \in TypedAnswers : \E n \in 1..Len(text) : SubSeq(text, 1, n) = Append(answerDisplay, digit)
  /\ answerDisplay' = Append(answerDisplay, digit)
  /\ checkDisabled' = (answerDisplay' = <<>>)
  /\ UNCHANGED <<gameState, activeOperation, padDisabled, message, lockedMessages, intervals, timeouts,
                 ticks, startedFrom, mathRandom, debounced, raised, returned>>

\* click on #clear-btn
clearButtonClick ==
  /\ ~padDisabled
  /\ InActiveWindow
  /\ answerDisplay' = <<>>
  /\ checkDisabled' = TRUE
  /\ UNCHANGED <<gameState, activeOperation, padDisabled, message, lockedMessages, intervals, timeouts,
                 ticks, startedFrom, mathRandom, debounced, raised, returned>>

\* an operation button that is never locked
neverLocked(gs) == FALSE

\* if (gameState.gameActive) of handleOperationButtonClick
modeSelectionLocked(gs) == gs.gameActive

\* if (gameState.gameActive) of handleDifficultyButtonClick
difficultySelectionLocked(gs) == gs.gameActive

\* click on an .operation-btn
handleOperationButtonClick(id) ==
  /\ InActiveWindow
  /\ IF modeSelectionLocked(gameState)
     THEN /\ lockedMessages' = lockedMessages \cup {"mode-locked-message"}
          /\ UNCHANGED <<gameState, activeOperation>>
     ELSE /\ gameState' = updateGameMode(gameState, id)
          /\ activeOperation' = id
          /\ UNCHANGED lockedMessages
  /\ UNCHANGED <<answerDisplay, checkDisabled, padDisabled, message, intervals, timeouts, ticks, startedFrom,
                 mathRandom, debounced, raised, returned>>

\* click on a .difficulty-btn
handleDifficultyButtonClick(id) ==
  /\ InActiveWindow
  /\ IF difficultySelectionLocked(gameState)
     THEN /\ lockedMessages' = lockedMessages \cup {"difficulty-locked-message"}
          /\ UNCHANGED gameState
     ELSE /\ gameState' = updateDifficulty(gameState, id)
          /\ UNCHANGED lockedMessages
  /\ UNCHANGED <<activeOperation, answerDisplay, checkDisabled, padDisabled, message, intervals, timeouts,
                 ticks, startedFrom, mathRandom, debounced, raised, returned>>

\* the setTimeout of showMessage fires, 2000 ms after the message was shown
hideMessage(messageElement) ==
  /\ messageElement \in lockedMessages
  /\ lockedMessages' = lockedMessages \ {messageElement}
  /\ UNCHANGED <<gameState, activeOperation, answerDisplay, checkDisabled, padDisabled, message, intervals,
                 timeouts, ticks, startedFrom, mathRandom, debounced, raised, returned>>

Next ==
  \/ startGame
  \/ resetGame
  \/ updateTimer
  \/ checkButtonClick
  \/ newProblemTimeout
  \/ \E digit \in 0..9 : numberButtonClick(digit)
  \/ clearButtonClick
  \/ \E id \in OperationButtons : handleOperationButtonClick(id)
  \/ \E id \in DifficultyButtons : handleDifficultyButtonClick(id)
  \/ \E messageElement \in {"mode-locked-message", "difficulty-locked-message"} : hideMessage(messageElement)

Spec == Init /\ [][Next]_vars

\* the browser runs every timeout callback that is due
FairSpec == Spec /\ WF_vars(newProblemTimeout)

\* every interval that is running fires again, and so does every timeout
\* callback that is due
SessionFairSpec == Spec /\ WF_vars(updateTimer) /\ WF_vars(newProblemTimeout)

\* the page, and checkAnswer called as a function
DirectNext ==
  \/ Next
  \/ checkAnswerOnEmptyDisplay

DirectSpec == Init /\ [][DirectNext]_vars

\* ---------------------------------------------------- the generators alone
\* any mode and any difficulty selected, Math.random unrestricted
GenInit ==
  /\ \E mode \in GameModes, difficulty \in Difficulties :
        /\ gameState = [initGameState EXCEPT !.gameMode = mode, !.difficulty = difficulty]
        /\ activeOperation = mode
  /\ answerDisplay = <<>>
  /\ checkDisabled = TRUE
  /\ padDisabled = TRUE
  /\ message = Msg("")
  /\ lockedMessages = {}
  /\ intervals = {}
  /\ timeouts = 0
  /\ ticks = UNDEFINED
  /\ startedFrom = "none"
  /\ mathRandom = 0..MaxOffset
  /\ raised = FALSE
  /\ returned = NothingReturned
  /\ debounced = notDebounced

\* no generator has been called yet; what a call yields does not depend on the
\* problem installed before it, so a behaviour makes one call
NotCalledYet == gameState.currentProblem = NoProblem /\ ~raised

\* generateProblemByMode(gameState.difficulty, difficultySettings, gameState.gameMode)
\* called as it is, its problem then installed by updateCurrentProblem
callGenerateProblemByMode ==
  /\ NotCalledYet
  /\ \/ /\ generateProblemByModeThrows(gameState.difficulty, gameState.gameMode)
        /\ raised' = TRUE
        /\ UNCHANGED gameState
     \/ /\ \E problem \in generateProblemByMode(gameState.difficulty, gameState.gameMode) :
             gameState' = updateCurrentProblem(gameState, problem)
        /\ raised' = FALSE
  /\ UNCHANGED <<activeOperation, answerDisplay, checkDisabled, padDisabled, message, lockedMessages,
                 intervals, timeouts, ticks, startedFrom, mathRandom, debounced, returned>>

\* newProblem() of script.js called as it is
callNewProblem ==
  /\ NotCalledYet
  /\ gameState' \in newProblem(gameState)
  /\ answerDisplay' = <<>>
  /\ checkDisabled' = TRUE
  /\ message' = Msg("")
  /\ raised' = FALSE
  /\ UNCHANGED <<activeOperation, padDisabled, lockedMessages, intervals, timeouts, ticks, startedFrom,
                 mathRandom, debounced, returned>>

GenNext == callGenerateProblemByMode \/ callNewProblem

GenSpec == GenInit /\ [][GenNext]_vars

\* ------------------------------------------- the utility functions alone
\* the page as loaded, Math.random unrestricted
UtilInit ==
  /\ gameState = [initGameState EXCEPT !.gameMode = "mixed", !.difficulty = "medium"]
  /\ activeOperation = "mixed"
  /\ answerDisplay = <<>>
  /\ checkDisabled = TRUE
  /\ padDisabled = TRUE
  /\ message = Msg("")
  /\ lockedMessages = {}
  /\ intervals = {}
  /\ timeouts = 0
  /\ ticks = UNDEFINED
  /\ startedFrom = "none"
  /\ mathRandom = 0..MaxOffset
  /\ raised = FALSE
  /\ returned = NothingReturned
  /\ debounced = notDebounced

\* no function has been called yet; what a call returns depends on its
\* arguments only, so a behaviour makes one call
NoCallYet == returned = NothingReturned /\ ~raised

\* the range ends getRandomNumber is called with
RangeEnds == (0 - MaxEnd)..MaxEnd

\* the seconds formatTime is called with
SecondsArguments == (0 - MaxEnd)..MaxSeconds

\* the entries recorded for three problems of the addition and subtraction tiers
RecordedEntries ==
  { Entry(Problem(Q2(2, "+", 2), 4, "", "addition")),
    Entry(Problem(Q2(3, "+", 5), 8, "", "addition")),
    Entry(Problem(Q2(10, "-", 2), 8, "", "subtraction")) }

\* the lists of recorded problems getUniqueIncorrectProblems is called with
RecordedLists == UNION { [1..n -> RecordedEntries] : n \in 0..MaxRecorded }

\* getRandomNumber(min, max)
callGetRandomNumber ==
  /\ NoCallYet
  /\ \E min \in RangeEnds, max \in RangeEnds :
       IF getRandomNumber(min, max) = {}
       THEN /\ raised' = TRUE
            /\ returned' = [function |-> "getRandomNumber", arguments |-> <<min, max>>, value |-> UNDEFINED]
       ELSE /\ raised' = FALSE
            /\ \E n \in getRandomNumber(min, max) :
                 returned' = [function |-> "getRandomNumber", arguments |-> <<min, max>>, value |-> n]
  /\ UNCHANGED <<gameState, activeOperation, answerDisplay, checkDisabled, padDisabled, message, lockedMessages,
                 intervals, timeouts, ticks, startedFrom, mathRandom, debounced>>

\* formatTime(seconds)
callFormatTime ==
  /\ NoCallYet
  /\ \E seconds \in SecondsArguments :
       returned' = [function |-> "formatTime", arguments |-> <<seconds>>, value |-> formatTime(seconds)]
  /\ UNCHANGED <<gameState, activeOperation, answerDisplay, checkDisabled, padDisabled, message, lockedMessages,
                 intervals, timeouts, ticks, startedFrom, mathRandom, debounced, raised>>

\* calculateAccuracy(state) on a state with the given score and incorrectAttempts
callCalculateAccuracy ==
  /\ NoCallYet
  /\ \E score \in 0..MaxTally, incorrectAttempts \in 0..MaxTally :
       /\ gameState' = [gameState EXCEPT !.score = score, !.incorrectAttempts = incorrectAttempts]
       /\ \E accuracy \in calculateAccuracy(gameState') :
            returned' = [function |-> "calculateAccuracy", arguments |-> <<score, incorrectAttempts>>,
                         value |-> accuracy]
  /\ UNCHANGED <<activeOperation, answerDisplay, checkDisabled, padDisabled, message, lockedMessages,
                 intervals, timeouts, ticks, startedFrom, mathRandom, debounced, raised>>

\* getUniqueIncorrectProblems(state) on a state with the given incorrectProblems
callGetUniqueIncorrectProblems ==
  /\ NoCallYet
  /\ \E problems \in RecordedLists :
       /\ gameState' = [gameState EXCEPT !.incorrectProblems = problems]
       /\ returned' = [function |-> "getUniqueIncorrectProblems", arguments |-> <<problems>>,
                       value |-> getUniqueIncorrectProblems(gameState'.incorrectProblems)]
  /\ UNCHANGED <<activeOperation, answerDisplay, checkDisabled, padDisabled, message, lockedMessages,
                 intervals, timeouts, ticks, startedFrom, mathRandom, debounced, raised>>

UtilNext == callGetRandomNumber \/ callFormatTime \/ callCalculateAccuracy \/ callGetUniqueIncorrectProblems

UtilSpec == UtilInit /\ [][UtilNext]_vars

\* ---------------------------------------------------------- debounce alone
\* the page as loaded, with one function debounced by DebounceDelay; timers
\* fire on time: the clock does not pass a due timer and no call is taken
\* before the callback of a due timer has run
DebounceInit == UtilInit

\* the returned function is called with args
callDebounced ==
  /\ Len(debounced.calls) < MaxCalls
  /\ ~timerDue
  /\ \E args \in DebounceArguments :
       LET id == Len(debounced.calls) + 1
       IN debounced' = [debounced EXCEPT
            !.timers = setTimeout(clearTimeout(debounced.timers, debounced.timeoutId), id,
                                  debounced.now, DebounceDelay, args),
            !.timeoutId = id,
            !.calls = Append(debounced.calls, [at |-> debounced.now, args |-> args])]
  /\ UNCHANGED <<gameState, activeOperation, answerDisplay, checkDisabled, padDisabled, message, lockedMessages,
                 intervals, timeouts, ticks, startedFrom, mathRandom, raised, returned>>

\* the callback of a due timer runs: func.apply(this, args)
debounceTimeout ==
  /\ \E t \in debounced.timers :
       /\ t.due <= debounced.now
       /\ debounced' = [debounced EXCEPT
            !.timers = debounced.timers \ {t},
            !.runs = Append(debounced.runs, [at |-> debounced.now, args |-> t.args])]
  /\ UNCHANGED <<gameState, activeOperation, answerDisplay, checkDisabled, padDisabled, message, lockedMessages,
                 intervals, timeouts, ticks, startedFrom, mathRandom, raised, returned>>

\* one unit of time passes
clockAdvances ==
  /\ debounced.now < MaxClock
  /\ ~timerDue
  /\ debounced' = [debounced EXCEPT !.now = debounced.now + 1]
  /\ UNCHANGED <<gameState, activeOperation, answerDisplay, checkDisabled, padDisabled, message, lockedMessages,
                 intervals, timeouts, ticks, startedFrom, mathRandom, raised, returned>>

DebounceNext == callDebounced \/ debounceTimeout \/ clockAdvances

DebounceSpec == DebounceInit /\ [][DebounceNext]_vars

\* ------------------------------------------------------------------ claims
\* the game is running: active, with its countdown interval outstanding
Running == gameState.gameActive /\ gameState.timerInterval \in intervals

\* C1: after any sequence of events at most one recurring tick source is
\* outstanding; a start while a session is running creates no second one.
C1_SingleTickSource == Cardinality(intervals) <= 1

\* C2: a start while a session is running is a no-op: score, incorrectAttempts,
\* currentProblemAttempts, incorrectProblems, timeLeft and currentProblem are
\* left unchanged.
C2_StartWhileRunningIsNoOp ==
  [][(Running /\ startGame) =>
       /\ gameState'.score = gameState.score
       /\ gameState'.incorrectAttempts = gameState.incorrectAttempts
       /\ gameState'.currentProblemAttempts = gameState.currentProblemAttempts
       /\ gameState'.incorrectProblems = gameState.incorrectProblems
       /\ gameState'.timeLeft = gameState.timeLeft
       /\ gameState'.currentProblem = gameState.currentProblem]_vars

\* C3: a start from Idle or Ended (the game is not active) keeps the selected
\* gameMode and difficulty, sets score, incorrectAttempts and
\* currentProblemAttempts to 0, empties incorrectProblems, sets timeLeft to 180
\* and active to true, and installs a freshly generated problem.
C3_StartFromIdleOrEnded ==
  [][(~gameState.gameActive /\ startGame) =>
       /\ gameState'.gameMode = gameState.gameMode
       /\ gameState'.difficulty = gameState.difficulty
       /\ gameState'.score = 0
       /\ gameState'.incorrectAttempts = 0
       /\ gameState'.currentProblemAttempts = 0
       /\ gameState'.incorrectProblems = <<>>
       /\ gameState'.timeLeft = 180
       /\ gameState'.gameActive
       /\ gameState'.currentProblem # NoProblem
       /\ gameState'.currentProblem \in generatedProblems(gameState')]_vars

\* C3, its case: a session just started after an ended one, with the mode and
\* the difficulty the learner selected in between
C3_Witness ==
  /\ startedFrom = "ended" /\ ticks = 0
  /\ gameState.gameMode = "addition" /\ gameState.difficulty = "easy"
  /\ gameState.gameActive /\ gameState.timeLeft = 180 /\ gameState.score = 0
  /\ gameState.incorrectProblems = <<>> /\ gameState.currentProblem # NoProblem

\* C4 as stated: after exactly 180 ticks of a session active is false and
\* timeLeft is 0.
C4_EndedAfter180Ticks ==
  ticks = START_TIME => (~gameState.gameActive /\ gameState.timeLeft = 0)

\* C4, amended: through the first 180 ticks of a session the game stays active
\* and timeLeft is 180 less the ticks, so 0 after 180 ticks; the 181st tick ends
\* the session with active false and timeLeft 0, and reports the accuracy, which
\* is 25 for 1 correct and 3 incorrect submissions.
C4_EndedAfter181Ticks ==
  [][/\ ticks' \in 0..START_TIME =>
          (gameState'.gameActive /\ gameState'.timeLeft = START_TIME - ticks')
     /\ (ticks = START_TIME /\ ticks' = START_TIME + 1) =>
          /\ ~gameState'.gameActive
          /\ gameState'.timeLeft = 0
          /\ message'.kind = "end-message"
          /\ message'.accuracy \in calculateAccuracy(gameState)
          /\ (gameState.score = 1 /\ gameState.incorrectAttempts = 3) => message'.accuracy = 25]_vars

\* C4, its case: the session has ended on its 181st tick after 1 correct and 3
\* incorrect submissions, and reports 25
C4_Witness ==
  /\ ticks = START_TIME + 1 /\ ~gameState.gameActive /\ gameState.timeLeft = 0
  /\ gameState.score = 1 /\ gameState.incorrectAttempts = 3
  /\ message.kind = "end-message" /\ message.accuracy = 25

\* C5: once a session has ended by countdown expiry, active stays false until
\* the next start; no other event, a pending delayed callback included, sets
\* it back to true.
C5_EndedStaysInactive ==
  [][(ticks = START_TIME + 1 /\ ~gameState.gameActive /\ gameState'.gameActive) => startGame]_vars

\* C6: after a reset the state stays at the idle defaults (active false,
\* currentProblem empty, counters zero) until the next start, whatever delayed
\* callback was pending at the reset.
C6_IdleAfterReset ==
  ticks = UNDEFINED =>
    /\ ~gameState.gameActive
    /\ gameState.currentProblem = NoProblem
    /\ gameState.score = 0
    /\ gameState.incorrectAttempts = 0
    /\ gameState.currentProblemAttempts = 0

\* C7: while the game is active every click on an operation or difficulty
\* button is rejected, signals the lock and leaves gameMode and difficulty
\* unchanged, so that both keep their values from one state of a session to the
\* next until the session ends or is reset.
C7_SelectionLockedWhileActive ==
  [][/\ (gameState.gameActive /\ \E id \in OperationButtons : handleOperationButtonClick(id)) =>
          (gameState' = gameState /\ "mode-locked-message" \in lockedMessages')
     /\ (gameState.gameActive /\ \E id \in DifficultyButtons : handleDifficultyButtonClick(id)) =>
          (gameState' = gameState /\ "difficulty-locked-message" \in lockedMessages')
     /\ (gameState.gameActive /\ gameState'.gameActive) =>
          /\ gameState'.gameMode = gameState.gameMode
          /\ gameState'.difficulty = gameState.difficulty]_vars

\* C7, its case: in a running session of a mode and difficulty the learner
\* selected, both kinds of button have been clicked and rejected
C7_Witness ==
  /\ Running /\ startedFrom = "idle"
  /\ gameState.gameMode = "addition" /\ gameState.difficulty = "easy"
  /\ lockedMessages = {"mode-locked-message", "difficulty-locked-message"}

\* C8 as stated: a problem is appended to incorrectProblems only on the first
\* incorrect submission against it, the one taking currentProblemAttempts from
\* 0 to 1.
C8_AppendedOnFirstIncorrectOnly ==
  [][Len(gameState'.incorrectProblems) > Len(gameState.incorrectProblems) =>
       (gameState.currentProblemAttempts = 0 /\ gameState'.currentProblemAttempts = 1)]_vars

\* C8, amended: every incorrect submission appends the current problem to
\* incorrectProblems, which so has one entry per incorrect attempt, the last
\* currentProblemAttempts of them for the current problem; the list without
\* duplicates has exactly one entry for it. Three incorrect submissions on one
\* problem give incorrectAttempts = 3, three entries and one without duplicates.
C8_EveryIncorrectAttemptRecorded ==
  LET problems == gameState.incorrectProblems
      k == gameState.currentProblemAttempts
      unique == getUniqueIncorrectProblems(problems)
  IN /\ Len(problems) = gameState.incorrectAttempts
     /\ k <= Len(problems)
     /\ \A i \in (Len(problems) - k + 1)..Len(problems) : problems[i] = Entry(gameState.currentProblem)
     /\ k >= 1 => Cardinality({i \in 1..Len(unique) : unique[i] = Entry(gameState.currentProblem)}) = 1
     /\ (k = 3 /\ gameState.incorrectAttempts = 3) => (Len(problems) = 3 /\ Len(unique) = 1)

\* C8, its case: three incorrect submissions on the first problem of a session
C8_Witness ==
  /\ gameState.gameActive /\ gameState.score = 0
  /\ gameState.currentProblemAttempts = 3 /\ gameState.incorrectAttempts = 3
  /\ Len(gameState.incorrectProblems) = 3
  /\ Len(getUniqueIncorrectProblems(gameState.incorrectProblems)) = 1

\* C9: in every reachable state currentProblemAttempts <= 3; no incorrect
\* submission is counted against a problem that has reached 3 attempts, the
\* delay before the next problem included.
C9_AtMostThreeAttempts == gameState.currentProblemAttempts <= MAX_PROBLEM_ATTEMPTS

\* C10: the incorrect submission that brings currentProblemAttempts to 3 leaves
\* the current problem in place and schedules the delayed callback; no pending
\* callback waits for ever (callbacks keep running, or from some time on none
\* is pending), the step of a callback installs a generated problem and sets
\* currentProblemAttempts to 0, and so a count of 3 or more always returns to 0.
C10_DelayedAdvance ==
  /\ [][(gameState.currentProblemAttempts < MAX_PROBLEM_ATTEMPTS
           /\ gameState'.currentProblemAttempts = MAX_PROBLEM_ATTEMPTS) =>
          (gameState'.currentProblem = gameState.currentProblem /\ timeouts' = timeouts + 1)]_vars
  /\ [][timeouts' < timeouts =>
          /\ gameState'.currentProblemAttempts = 0
          /\ gameState'.currentProblem \in generatedProblems(gameState')]_vars
  /\ ([]<><<newProblemTimeout>>_vars) \/ (<>[](timeouts = 0))
  /\ (gameState.currentProblemAttempts >= MAX_PROBLEM_ATTEMPTS) ~> (gameState.currentProblemAttempts = 0)

\* C10, its case: after three incorrect submissions on the first problem of a
\* session the callback has run and the next problem awaits its first attempt
C10_Witness ==
  /\ Running /\ ticks # UNDEFINED /\ timeouts = 0
  /\ gameState.score = 0 /\ gameState.incorrectAttempts = MAX_PROBLEM_ATTEMPTS
  /\ gameState.currentProblemAttempts = 0 /\ gameState.currentProblem # NoProblem

\* a click on #check with the display holding the answer of the current problem
CorrectSubmission ==
  checkButtonClick /\ parseInt(answerDisplay) = gameState.currentProblem.answer

\* a click on #check with the display holding another number
IncorrectSubmission ==
  /\ checkButtonClick
  /\ ~isNaN(parseInt(answerDisplay))
  /\ parseInt(answerDisplay) # gameState.currentProblem.answer

\* C11: a submission equal to currentProblem.answer increments score by exactly
\* 1, installs a generated problem in the same step with currentProblemAttempts
\* = 0, and leaves incorrectAttempts, incorrectProblems, timeLeft, gameMode,
\* difficulty and active unchanged.
C11_CorrectSubmission ==
  [][CorrectSubmission =>
       /\ gameState'.score = gameState.score + 1
       /\ gameState'.currentProblemAttempts = 0
       /\ gameState'.currentProblem \in generatedProblems(gameState')
       /\ gameState'.incorrectAttempts = gameState.incorrectAttempts
       /\ gameState'.incorrectProblems = gameState.incorrectProblems
       /\ gameState'.timeLeft = gameState.timeLeft
       /\ gameState'.gameMode = gameState.gameMode
       /\ gameState'.difficulty = gameState.difficulty
       /\ gameState'.gameActive = gameState.gameActive]_vars

\* C11, its case: a correct answer given after two incorrect ones on the first
\* problem of a session
C11_Witness ==
  /\ Running /\ timeouts = 0 /\ message.kind = ""
  /\ gameState.score = 1 /\ gameState.incorrectAttempts = 2
  /\ gameState.currentProblemAttempts = 0 /\ Len(gameState.incorrectProblems) = 2

\* C12: every incorrect submission (an integer other than the answer)
\* increments incorrectAttempts by exactly 1 and currentProblemAttempts by
\* exactly 1 and leaves score, timeLeft, gameMode, difficulty, active and
\* currentProblem unchanged in that step.
C12_IncorrectSubmission ==
  [][IncorrectSubmission =>
       /\ gameState'.incorrectAttempts = gameState.incorrectAttempts + 1
       /\ gameState'.currentProblemAttempts = gameState.currentProblemAttempts + 1
       /\ gameState'.score = gameState.score
       /\ gameState'.timeLeft = gameState.timeLeft
       /\ gameState'.gameMode = gameState.gameMode
       /\ gameState'.difficulty = gameState.difficulty
       /\ gameState'.gameActive = gameState.gameActive
       /\ gameState'.currentProblem = gameState.currentProblem]_vars

\* C12, its case: an incorrect answer to the second problem of a session
C12_Witness ==
  /\ Running /\ message.kind = "incorrect"
  /\ gameState.score = 1 /\ gameState.incorrectAttempts = 1
  /\ gameState.currentProblemAttempts = 1

\* C13: checkAnswer on a display that does not parse to an integer (the empty
\* display) reports the error and leaves the whole game state unchanged: score,
\* incorrectAttempts, currentProblemAttempts, incorrectProblems and
\* currentProblem keep their values.
C13_NotANumber ==
  [][(checkAnswer /\ answerDisplay = <<>>) =>
       /\ message'.kind = "please-enter-a-number"
       /\ gameState' = gameState
       /\ timeouts' = timeouts]_vars

\* C13, its case: a running session with answers counted in which checkAnswer
\* has reported the empty display
C13_Witness ==
  /\ Running /\ message.kind = "please-enter-a-number"
  /\ gameState.score >= 1 /\ gameState.currentProblemAttempts >= 1

\* the state the application starts in
StartupState == [initGameState EXCEPT !.gameMode = "mixed", !.difficulty = "medium"]

\* C14: a reset from any state yields exactly the startup state: active false,
\* score 0, incorrectAttempts 0, currentProblemAttempts 0, incorrectProblems
\* empty, currentProblem empty, timeLeft 180, gameMode and difficulty at the
\* configured defaults, and no tick source outstanding.
C14_ResetToStartup ==
  [][resetGame => (gameState' = StartupState /\ intervals' = {})]_vars

\* C15: a tick while the game is not active changes no game-state field
\* (timeLeft, score, counters, problem, mode, difficulty) and leaves no
\* recurring tick source outstanding.
\* (the tick sources a tick leaves outstanding when it finds the game not
\* active are ClearedIntervals; such a tick may change no variable at all)
C15_StaleTickStops ==
  /\ [][(~gameState.gameActive /\ updateTimer) =>
          [gameState' EXCEPT !.timerInterval = NO_TIMER] = [gameState EXCEPT !.timerInterval = NO_TIMER]]_vars
  /\ [](~gameState.gameActive => ClearedIntervals = {})

\* C16: in every reachable state score >= 0, incorrectAttempts >= 0,
\* currentProblemAttempts >= 0 and 0 <= timeLeft <= 180.
C16_CountersInRange ==
  /\ gameState.score >= 0
  /\ gameState.incorrectAttempts >= 0
  /\ gameState.currentProblemAttempts >= 0
  /\ gameState.timeLeft >= 0
  /\ gameState.timeLeft <= 180

\* C16, its case: the last second of a session, with answers of both kinds
\* counted and the countdown at 0
C16_Witness ==
  /\ Running /\ gameState.timeLeft = 0
  /\ gameState.score >= 1 /\ gameState.incorrectAttempts >= 1

\* a step that installs or clears currentProblem: a start, a reset, a correct
\* answer, or the delayed callback
InstallStep == startGame \/ resetGame \/ CorrectSubmission \/ newProblemTimeout

\* C17: every transition that installs or clears currentProblem, and every
\* transition that changes it, leaves currentProblemAttempts = 0; a transition
\* that lowers currentProblemAttempts is one of those; and updateCurrentProblem
\* changes no field other than currentProblem and currentProblemAttempts.
C17_AttemptsResetWithProblem ==
  /\ [][(InstallStep \/ gameState'.currentProblem # gameState.currentProblem) =>
          gameState'.currentProblemAttempts = 0]_vars
  /\ [][gameState'.currentProblemAttempts < gameState.currentProblemAttempts => InstallStep]_vars
  /\ [](\A problem \in generatedProblems(gameState) :
          LET updated == updateCurrentProblem(gameState, problem)
          IN /\ updated.currentProblem = problem
             /\ updated.currentProblemAttempts = 0
             /\ [updated EXCEPT !.currentProblem = gameState.currentProblem,
                                !.currentProblemAttempts = gameState.currentProblemAttempts] = gameState)

\* C17, its case: twice in a session a correct answer followed an incorrect
\* one, and the problem installed last awaits its first attempt
C17_Witness ==
  /\ Running /\ timeouts = 0
  /\ gameState.score = 2 /\ gameState.incorrectAttempts = 2
  /\ gameState.currentProblemAttempts = 0 /\ gameState.currentProblem # NoProblem

\* the number a numeral of a question denotes
numberOf(token) == CHOOSE n \in 0..MaxOperand : ToString(n) = token

\* a + b or a - b, as the operator of the question says
applyOperator(a, op, b) == IF op = "-" THEN a - b ELSE a + b

\* the displayed expression of a three-number question, evaluated left to right
evaluateLeftToRight(question) ==
  applyOperator(applyOperator(numberOf(question[1]), question[2], numberOf(question[3])),
                question[4], numberOf(question[5]))

\* C18: every three-number problem installed, by newProblem in threeNumber
\* mode, by the mixed dispatch or by generateProblemByMode, at any difficulty
\* and in any of the three shapes, shows "a op b op c = ?" with an answer that
\* is not negative and equals the expression evaluated left to right, with an
\* intermediate result that is not negative, and with a >= b when the first
\* operator is a minus.
C18_ThreeNumberProblemsSound ==
  gameState.currentProblem.type = "threeNumber" =>
    LET question == gameState.currentProblem.question
        intermediate == applyOperator(numberOf(question[1]), question[2], numberOf(question[3]))
    IN /\ Len(question) = 7
       /\ question[2] \in {"+", "-"} /\ question[4] \in {"+", "-"}
       /\ question[6] = "=" /\ question[7] = "?"
       /\ gameState.currentProblem.answer >= 0
       /\ gameState.currentProblem.answer = evaluateLeftToRight(question)
       /\ intermediate >= 0
       /\ (question[2] = "-" => numberOf(question[1]) >= numberOf(question[3]))

\* C18, its case: newProblem in threeNumber mode installed "1 - 1 + c = ?",
\* the shape whose intermediate result is zero
C18_Witness ==
  /\ gameState.gameMode = "threeNumber" /\ gameState.currentProblem.type = "threeNumber"
  /\ SubSeq(gameState.currentProblem.question, 1, 3) = <<"1", "-", "1">>

\* the difficulties that are tiers of the settings
Tiers == {"easy", "medium", "hard"}

\* C19: in subtraction mode at a tier, the call of the generator never ends in
\* an exception, and the problem installed is "a - b = ?" with a in
\* [min1, max1], b in [min2, min(max2, a)] and the answer a - b, not negative.
C19_SubtractionTiers ==
  (gameState.gameMode = "subtraction" /\ gameState.difficulty \in Tiers) =>
    /\ ~raised
    /\ ~generateSubtractionProblemThrows(gameState.difficulty)
    /\ gameState.currentProblem # NoProblem =>
         \A s \in difficultySettings("subtraction", gameState.difficulty) :
           LET question == gameState.currentProblem.question
               a == numberOf(question[1])
               b == numberOf(question[3])
           IN /\ question = Q2(a, "-", b)
              /\ a >= s.min1 /\ a <= s.max1
              /\ b >= s.min2 /\ b <= Min(s.max2, a)
              /\ gameState.currentProblem.answer = a - b
              /\ gameState.currentProblem.answer >= 0

\* C19, its case: the hard tier produced "20 - 20 = ?", the answer zero
C19_Witness ==
  /\ gameState.gameMode = "subtraction" /\ gameState.difficulty = "hard"
  /\ gameState.currentProblem.question = Q2(20, "-", 20)
  /\ gameState.currentProblem.answer = 0

\* C20: a call of generateProblemByMode for an operation and a difficulty
\* that have no settings entry ends in an exception and installs no problem.
C20_MissingSettingsFail ==
  [][(difficultySettings(gameState.gameMode, gameState.difficulty) = {} /\ callGenerateProblemByMode) =>
       (raised' /\ gameState' = gameState)]_vars

\* the generator a problem has the shape of: "a + b = ?", "a - b = ?",
\* "a op b op c = ?", or "How many ..." with its run of symbols
problemShape(problem) ==
  CASE problem.question = <<>> -> ""
    [] problem.question[1] = "How many " -> "counting"
    [] Len(problem.question) = 7 -> "threeNumber"
    [] Len(problem.question) = 5 /\ problem.question[2] = "+" -> "addition"
    [] Len(problem.question) = 5 /\ problem.question[2] = "-" -> "subtraction"
    [] OTHER -> ""

\* problem.sourceMode = gameMode on every problem of a set
tagged(generated, gameMode) == { [p EXCEPT !.sourceMode = gameMode] : p \in generated }

C22_SourceModeTag ==
  [][(gameState'.currentProblem # gameState.currentProblem /\ gameState'.currentProblem # NoProblem) =>
       gameState'.currentProblem.sourceMode = gameState'.gameMode]_vars

\* C22, its case: newProblem in mixed mode installed an addition problem,
\* tagged mixed
C22_Witness ==
  /\ gameState.gameMode = "mixed" /\ gameState.gameActive
  /\ problemShape(gameState.currentProblem) = "addition"
  /\ gameState.currentProblem.sourceMode = "mixed"

\* the generator registered for a mode
registeredGenerator(gameMode, difficulty) ==
  CASE gameMode = "addition" -> generateAdditionProblem(difficulty)
    [] gameMode = "subtraction" -> generateSubtractionProblem(difficulty)
    [] gameMode = "threeNumber" -> generateThreeNumberProblem(difficulty)
    [] gameMode = "counting" -> generateCountingProblem(difficulty)

\* C30: for the modes addition, subtraction, threeNumber and counting, at
\* every tier, generateProblemByMode returns what the generator registered for
\* the mode returns for that tier, tagged with the mode, and ends in an
\* exception no more than it; and the problem installed in such a mode has the
\* shape of the mode.
C30_RegisteredGenerator ==
  /\ (NotCalledYet /\ gameState.gameMode # "mixed" /\ gameState.difficulty \in Tiers) =>
       /\ generateProblemByMode(gameState.difficulty, gameState.gameMode)
            = tagged(registeredGenerator(gameState.gameMode, gameState.difficulty), gameState.gameMode)
       /\ ~generateProblemByModeThrows(gameState.difficulty, gameState.gameMode)
  /\ (gameState.gameMode # "mixed" /\ gameState.currentProblem # NoProblem) =>
       problemShape(gameState.currentProblem) = gameState.gameMode

\* C30, its case: a direct call in counting mode returned a counting problem
C30_Witness ==
  /\ gameState.gameMode = "counting" /\ ~gameState.gameActive
  /\ problemShape(gameState.currentProblem) = "counting"

\* C23: whatever problem is installed, when the difficulty selected is
\* mixed-difficulty the next newProblem hands medium or hard to the generator,
\* either of them, so that two problems of a session can differ in tier, and
\* never easy: a subtraction problem so installed has a >= 10, a counting
\* problem count >= 10. No generation changes gameState.difficulty, and
\* for every difficulty selected what it hands to a generator is one of
\* easy, medium, hard.
C23_MixedDifficultyResolved ==
  /\ [](gameState.difficulty = "mixed-difficulty" => activeDifficulties(gameState) = {"medium", "hard"})
  /\ [](activeDifficulties(gameState) \subseteq Tiers)
  /\ [][gameState'.difficulty = gameState.difficulty]_vars
  /\ []((gameState.difficulty = "mixed-difficulty" /\ gameState.gameActive) =>
          /\ gameState.gameMode = "subtraction" => numberOf(gameState.currentProblem.question[1]) >= 10
          /\ gameState.gameMode = "counting" => gameState.currentProblem.answer >= 10)

\* C23, its case: with mixed-difficulty selected newProblem installed
\* "100 - 1 = ?", a problem of the hard tier only, and the field still reads
\* mixed-difficulty
C23_Witness ==
  /\ gameState.difficulty = "mixed-difficulty" /\ gameState.gameActive
  /\ gameState.gameMode = "subtraction"
  /\ gameState.currentProblem.question = Q2(100, "-", 1)

\* C24: in addition mode at a tier the problem installed is "a + b = ?" with
\* a in [min1, max1], b in [min2, max2] and the answer a + b, a and b being
\* the operands the question shows; the call does not end in an exception.
C24_AdditionTiers ==
  (gameState.gameMode = "addition" /\ gameState.difficulty \in Tiers) =>
    /\ ~raised
    /\ gameState.currentProblem # NoProblem =>
         \A s \in difficultySettings("addition", gameState.difficulty) :
           LET question == gameState.currentProblem.question
               a == numberOf(question[1])
               b == numberOf(question[3])
           IN /\ question = Q2(a, "+", b)
              /\ gameState.currentProblem.originalQuestion = question
              /\ a >= s.min1 /\ a <= s.max1
              /\ b >= s.min2 /\ b <= s.max2
              /\ gameState.currentProblem.answer = a + b

\* C24, its case: the hard tier produced "50 + 50 = ?", the answer 100
C24_Witness ==
  /\ gameState.gameMode = "addition" /\ gameState.difficulty = "hard"
  /\ gameState.currentProblem.question = Q2(50, "+", 50)
  /\ gameState.currentProblem.answer = 100

\* the symbols of a counting question that come before position i of its body
symbolsBefore(body, symbol, i) == Cardinality({j \in 1..(i - 1) : body[j] = symbol})

\* C25: in counting mode at a tier the answer is the count, within
\* [min, max]; the body of the question, after "How many <symbol>?<br>", is
\* made of one symbol, blanks and breaks only, holds the symbol count times,
\* and holds a break after every 5th symbol and nowhere else, count div 5
\* breaks, when the tier is not easy, and no break when it is easy.
C25_CountingProblems ==
  (gameState.gameMode = "counting" /\ gameState.difficulty \in Tiers /\ gameState.currentProblem # NoProblem) =>
    \A s \in difficultySettings("counting", gameState.difficulty) :
      LET question == gameState.currentProblem.question
          symbol == question[2]
          body == SubSeq(question, 5, Len(question))
          count == gameState.currentProblem.answer
          breaks == {i \in 1..Len(body) : body[i] = "<br>"}
      IN /\ SubSeq(question, 1, 4) = <<"How many ", symbol, "?", "<br>">>
         /\ \E e \in 1..Len(EMOJIS) : symbol = EMOJIS[e]
         /\ count >= s.min1 /\ count <= s.max1
         /\ \A i \in 1..Len(body) : body[i] \in {symbol, " ", "<br>"}
         /\ symbolsBefore(body, symbol, Len(body) + 1) = count
         /\ Cardinality(breaks) = (IF gameState.difficulty = "easy" THEN 0 ELSE count \div 5)
         /\ \A i \in breaks : /\ symbolsBefore(body, symbol, i) % 5 = 0
                               /\ symbolsBefore(body, symbol, i) > 0
                               /\ body[i - 1] # "<br>"
         /\ gameState.difficulty # "easy" =>
              \A k \in 1..(count \div 5) : \E i \in breaks : symbolsBefore(body, symbol, i) = 5 * k

\* C25, its case: the medium tier shows ten symbols, the second break
\* closing the body
C25_Witness ==
  /\ gameState.gameMode = "counting" /\ gameState.difficulty = "medium"
  /\ gameState.currentProblem.answer = 10
  /\ gameState.currentProblem.question[Len(gameState.currentProblem.question)] = "<br>"

\* C26: calculateAccuracy returns 0 when score + incorrectAttempts = 0, and
\* otherwise an integer nearest to 100 * score / (score + incorrectAttempts);
\* the result lies in 0..100, is 100 when incorrectAttempts = 0 and
\* score > 0, 60 for score 3 and 2 incorrect attempts, and 25 for 1 and 3.
C26_Accuracy ==
  returned.function = "calculateAccuracy" =>
    LET score == returned.arguments[1]
        incorrectAttempts == returned.arguments[2]
        totalAttempts == score + incorrectAttempts
        accuracy == returned.value
    IN /\ ~raised
       /\ totalAttempts = 0 => accuracy = 0
       /\ totalAttempts > 0 =>
            /\ 2 * totalAttempts * accuracy - 200 * score <= totalAttempts
            /\ 200 * score - 2 * totalAttempts * accuracy <= totalAttempts
       /\ accuracy \in 0..100
       /\ (incorrectAttempts = 0 /\ score > 0) => accuracy = 100
       /\ (score = 3 /\ incorrectAttempts = 2) => accuracy = 60
       /\ (score = 1 /\ incorrectAttempts = 3) => accuracy = 25

\* C26, its case: 23 correct of 40, where the percentage is 57 and a half
\* and the double product falls short of it
C26_Witness ==
  /\ returned.function = "calculateAccuracy"
  /\ returned.arguments = <<23, 17>> /\ returned.value = 57

\* the place of the first entry of a list that equals the given one
firstOccurrence(problems, entry) == CHOOSE i \in 1..Len(problems) :
  problems[i] = entry /\ \A j \in 1..(i - 1) : problems[j] # entry

\* C27: the list getUniqueIncorrectProblems returns holds no two entries
\* with the same question and answer, holds every recorded entry exactly once
\* and nothing else, in the order of the first occurrences in
\* incorrectProblems; the function returns its own result unchanged, and the
\* incorrectProblems of the state are what they were.
C27_UniqueProblems ==
  returned.function = "getUniqueIncorrectProblems" =>
    LET problems == returned.arguments[1]
        unique == returned.value
    IN /\ \A i \in 1..Len(unique), j \in 1..Len(unique) :
            (unique[i].question = unique[j].question /\ unique[i].answer = unique[j].answer) => i = j
       /\ \A i \in 1..Len(problems) : Cardinality({j \in 1..Len(unique) : unique[j] = problems[i]}) = 1
       /\ \A j \in 1..Len(unique) : \E i \in 1..Len(problems) : problems[i] = unique[j]
       /\ \A j \in 1..Len(unique), k \in 1..Len(unique) :
            j < k => firstOccurrence(problems, unique[j]) < firstOccurrence(problems, unique[k])
       /\ getUniqueIncorrectProblems(unique) = unique
       /\ gameState.incorrectProblems = problems

\* C27, its case: "2 + 2 = ?" recorded, then "3 + 5 = ?", then "2 + 2 = ?" again
C27_Witness ==
  /\ returned.function = "getUniqueIncorrectProblems"
  /\ returned.arguments[1] = <<[question |-> Q2(2, "+", 2), answer |-> 4],
                               [question |-> Q2(3, "+", 5), answer |-> 8],
                               [question |-> Q2(2, "+", 2), answer |-> 4]>>
  /\ returned.value = <<[question |-> Q2(2, "+", 2), answer |-> 4], [question |-> Q2(3, "+", 5), answer |-> 8]>>

\* C28: for min <= max the numbers getRandomNumber(min, max) can return are
\* exactly min..max, and a call returns one of them; for min > max the call
\* ends in an exception and returns nothing.
C28_RandomNumberRange ==
  /\ NoCallYet =>
       \A min \in RangeEnds, max \in RangeEnds :
         getRandomNumber(min, max) = (IF min <= max THEN min..max ELSE {})
  /\ returned.function = "getRandomNumber" =>
       LET min == returned.arguments[1]
           max == returned.arguments[2]
       IN /\ raised <=> min > max
          /\ raised => returned.value = UNDEFINED
          /\ ~raised => (returned.value >= min /\ returned.value <= max)
          /\ (~raised /\ min = max) => returned.value = min

\* C28, its case: the upper end of the widest range was returned
C28_Witness ==
  /\ returned.function = "getRandomNumber" /\ ~raised
  /\ returned.arguments = <<0 - MaxEnd, MaxEnd>> /\ returned.value = MaxEnd

\* C29: formatTime(s) for s >= 0 is the numeral of s div 60, a colon, and
\* the two digits of s mod 60, so "0:00" for 0, "1:05" for 65 and "60:00"
\* for 3600; for s < 0 it is "0:00"; it never ends in an exception.
C29_FormatTime ==
  returned.function = "formatTime" =>
    LET s == returned.arguments[1]
    IN /\ ~raised
       /\ s >= 0 => returned.value = ToString(s \div 60) \o ":" \o ToString((s % 60) \div 10)
                                        \o ToString((s % 60) % 10)
       /\ s >= 0 => Len(returned.value) = Len(ToString(s \div 60)) + 3
       /\ s < 0 => returned.value = "0:00"
       /\ s = 0 => returned.value = "0:00"
       /\ s = 65 => returned.value = "1:05"
       /\ s = 3600 => returned.value = "60:00"

\* C29, its case: an hour, sixty minutes and no seconds
C29_Witness ==
  /\ returned.function = "formatTime"
  /\ returned.arguments = <<3600>> /\ returned.value = "60:00"

\* C31: gameActive changes from true to false only in resetGame or in an
\* updateTimer step taken when timeLeft is 0, the countdown exhausted, which
\* ends the session with its results; no checkAnswer, no click on an operation
\* or difficulty button and no delayed newProblem ends a session.
C31_EndedByExpiryOrReset ==
  [][(gameState.gameActive /\ ~gameState'.gameActive) =>
       \/ resetGame
       \/ /\ updateTimer
          /\ gameState.timeLeft = 0
          /\ gameState'.timeLeft = 0
          /\ message'.kind = "end-message"]_vars

\* C31, its case: a session with two correct answers has ended by expiry
C31_Witness ==
  /\ ~gameState.gameActive /\ ticks = START_TIME + 1
  /\ message.kind = "end-message" /\ gameState.score = 2 /\ gameState.incorrectAttempts = 0

\* C32: every three-number problem installed at a tier shows a first operand
\* in [min1, max1], a second in [min2, max2] and a third in [min3, max3] of
\* the tier, the adjusted operands included.
C32_OperandsInRange ==
  (gameState.currentProblem.type = "threeNumber" /\ gameState.difficulty \in Tiers) =>
    \A s \in difficultySettings("threeNumber", gameState.difficulty) :
      LET question == gameState.currentProblem.question
      IN /\ numberOf(question[1]) >= s.min1 /\ numberOf(question[1]) <= s.max1
         /\ numberOf(question[3]) >= s.min2 /\ numberOf(question[3]) <= s.max2
         /\ numberOf(question[5]) >= s.min3 /\ numberOf(question[5]) <= s.max3

\* the samples generateThreeNumberProblem draws at a tier
ThreeNumberSamples(s) == (s.min1..s.max1) \X (s.min2..s.max2) \X (s.min3..s.max3)

\* the state from which the mixed dispatch calls generateThreeNumberProblem at a tier
BeforeMixedCall == NotCalledYet /\ gameState.gameMode = "mixed" /\ gameState.difficulty \in Tiers

\* C33: at every tier and for every sample a, b, c, the a + b - c shape of
\* generateThreeNumberProblem shows, when a + b <= c, "a + b - c'" for the
\* numbers c' of 1..max(1, a + b - 1) with the answer a + b - c', and when
\* a + b > c it shows "a + b - c" with the answer a + b - c; the answer is
\* at least 1.
C33_SubtractedOperandAdjusted ==
  BeforeMixedCall =>
    \A s \in difficultySettings("threeNumber", gameState.difficulty) : \A n \in ThreeNumberSamples(s) :
      LET a == n[1]
          b == n[2]
          c == n[3]
          outcomes == ThreeNumberShape(s, 2, a, b, c)
      IN /\ a + b <= c =>
              outcomes = { Problem(Q3(a, "+", b, "-", adjusted), a + b - adjusted, "threeNumber", "") :
                           adjusted \in 1..Max(1, a + b - 1) }
         /\ a + b > c => outcomes = { Problem(Q3(a, "+", b, "-", c), a + b - c, "threeNumber", "") }
         /\ outcomes # {}
         /\ \A p \in outcomes : p.answer >= 1

\* C33, its case: the mixed dispatch at the hard tier installed
\* "10 + 5 - 3 = ?", which only the adjustment of c = 15 produces
C33_Witness ==
  /\ gameState.gameMode = "mixed" /\ gameState.difficulty = "hard"
  /\ gameState.currentProblem.question = Q3(10, "+", 5, "-", 3)
  /\ gameState.currentProblem.answer = 12

\* C34: at every tier and for every sample a, b, c, the a - b + c shape of
\* generateThreeNumberProblem shows "a + b + c" with the sampled operands
\* when a <= min2, and otherwise "a - b' + c" for the numbers b' of
\* min2..min(max2, a - 1), a range that is not empty, with a - b' >= 1
\* and the answer a - b' + c.
C34_SubtrahendAdjusted ==
  BeforeMixedCall =>
    \A s \in difficultySettings("threeNumber", gameState.difficulty) : \A n \in ThreeNumberSamples(s) :
      LET a == n[1]
          b == n[2]
          c == n[3]
          outcomes == ThreeNumberShape(s, 3, a, b, c)
      IN /\ a <= s.min2 => outcomes = { Problem(Q3(a, "+", b, "+", c), a + b + c, "threeNumber", "") }
         /\ a > s.min2 =>
              /\ s.min2 <= Min(s.max2, a - 1)
              /\ outcomes = { Problem(Q3(a, "-", adjusted, "+", c), a - adjusted + c, "threeNumber", "") :
                              adjusted \in s.min2..Min(s.max2, a - 1) }
              /\ \A p \in outcomes : a - numberOf(p.question[3]) >= 1
         /\ outcomes # {}

\* C34, its case: the mixed dispatch at the hard tier installed "10 - 9 + 5 = ?"
C34_Witness ==
  /\ gameState.gameMode = "mixed" /\ gameState.difficulty = "hard"
  /\ gameState.currentProblem.question = Q3(10, "-", 9, "+", 5)
  /\ gameState.currentProblem.answer = 6

\* the question and answer of every problem of a set
shown(problems) == { <<p.question, p.answer>> : p \in problems }

\* C40: at every tier the three-number generation of newProblem and
\* generateThreeNumberProblem have the same possible questions and answers.
C40_SameThreeNumberOutcomes ==
  (NotCalledYet /\ gameState.gameMode = "threeNumber" /\ gameState.difficulty \in Tiers) =>
    shown(InlineThreeNumberProblem(gameState.difficulty)) = shown(generateThreeNumberProblem(gameState.difficulty))

\* the calls after which no other call arrives within the delay: the last
\* calls of the bursts
lastOfBurst ==
  { j \in 1..Len(debounced.calls) :
      j = Len(debounced.calls) \/ debounced.calls[j + 1].at - debounced.calls[j].at >= DebounceDelay }

\* the j-th call in the order of the calls, among a set of calls
nthOf(calls, n) == CHOOSE j \in calls : Cardinality({ k \in calls : k <= j }) = n

\* C35: func runs once for each burst of calls and for nothing else: its
\* n-th run is for the last call of the n-th burst, DebounceDelay after that
\* call and with its arguments, and every burst whose last call is more than
\* DebounceDelay old has had its run.
C35_RunsOncePerBurst ==
  /\ Len(debounced.runs) <= Cardinality(lastOfBurst)
  /\ \A n \in 1..Len(debounced.runs) :
       LET call == debounced.calls[nthOf(lastOfBurst, n)]
       IN debounced.runs[n] = [at |-> call.at + DebounceDelay, args |-> call.args]
  /\ Len(debounced.runs) >=
       Cardinality({ j \in lastOfBurst : debounced.calls[j].at + DebounceDelay < debounced.now })

\* C35, its case: two calls less than the delay apart with different
\* arguments, and func has run once, with the arguments of the second
C35_Witness ==
  /\ Len(debounced.calls) = 2
  /\ debounced.calls[2].at - debounced.calls[1].at < DebounceDelay
  /\ debounced.calls[1].args = "a" /\ debounced.calls[2].args = "b"
  /\ debounced.now > debounced.calls[2].at + DebounceDelay
  /\ debounced.runs = <<[at |-> debounced.calls[2].at + DebounceDelay, args |-> "b"]>>

\* C36: in every reachable state in which gameActive is true, the interval
\* of the session, gameState.timerInterval, is outstanding.
C36_ActiveHasTimer ==
  gameState.gameActive => (gameState.timerInterval # NO_TIMER /\ gameState.timerInterval \in intervals)

\* C37: with the intervals and the pending callbacks firing, whenever
\* gameActive is true it is false at some later time; and once the countdown
\* has expired gameActive becomes true again only in startGame.
C37_SessionsTerminate ==
  /\ [][(ticks = START_TIME + 1 /\ ~gameState.gameActive /\ gameState'.gameActive) => startGame]_vars
  /\ gameState.gameActive ~> ~gameState.gameActive

\* C38: while the session runs, a delayed newProblem is scheduled only by the
\* submission that takes the problem to its third attempt, so that one
\* advance at most is pending for a problem, and when the callback fires the
\* problem it replaces is the one that has used up its attempts, not a
\* problem installed since.
C38_AdvanceReplacesItsProblem ==
  /\ [][(gameState.gameActive /\ timeouts' > timeouts) =>
          gameState'.currentProblemAttempts = MAX_PROBLEM_ATTEMPTS]_vars
  /\ [][(gameState.gameActive /\ timeouts' < timeouts) => hasReachedMaxAttempts(gameState)]_vars

\* C39: while gameActive is false, score, incorrectAttempts,
\* currentProblemAttempts and incorrectProblems change only in startGame or
\* resetGame.
C39_NoSubmissionWhileInactive ==
  [][(/\ ~gameState.gameActive
      /\ \/ gameState'.score # gameState.score
         \/ gameState'.incorrectAttempts # gameState.incorrectAttempts
         \/ gameState'.currentProblemAttempts # gameState.currentProblemAttempts
         \/ gameState'.incorrectProblems # gameState.incorrectProblems) =>
       (startGame \/ resetGame)]_vars

====
